---- MODULE Spec2Model ----
(***************************************************************************)
(* Model of the BLE environmental-sensor client (src/src/ble_client.c),    *)
(* its reactor thread (src/src/main.c) and the consumer thread that reads  *)
(* the sensor snapshot (src/src/http_server.c).                            *)
(*                                                                         *)
(* Values of the store are kept in hundredths (the code stores raw/100.0). *)
(***************************************************************************)
EXTENDS Integers, Sequences, FiniteSets, TLC

VARIABLES
    g_state,    \* struct ble_sensor_state g_state (without the mutex)
    lock,       \* g_state.lock: "free" or the thread holding it
    clients,    \* the struct client objects allocated and not yet freed
    timers,     \* pending mainloop timeouts, in the order they were added
    socks,      \* the descriptors returned by l2cap_le_att_connect so far
    started,    \* ble_client_start has run and mainloop_run is looping
    quit,       \* mainloop_quit has been called
    fault,      \* the process was killed by a memory fault
    cons,       \* the consumer thread: position and result of its last call,
                \* the store as that call saw it, and whether the call before
                \* it was the same function reading the same store
    last,       \* the last callback the reactor ran, with its inputs
    nattempt    \* parity of the number of l2cap_le_att_connect calls

vars == <<g_state, lock, clients, timers, socks, started, quit, fault, cons,
          last, nattempt>>

----------------------------------------------------------------------------
(* Bounds of the model *)

\* longest notification payload delivered, in bytes
MaxLen == 4

----------------------------------------------------------------------------
(* Program constants *)

UUID_ESS_SERVICE == 6170
UUID_TEMPERATURE == 10862
UUID_PRESSURE == 10861
UUID_HUMIDITY == 10863

\* pointers to struct client: the null pointer, and the object made for fd
NULL == [addr |-> 0]
Ptr(fd) == [addr |-> fd]

\* no sensor kind
NoKind == "none"

\* octets a payload is built from (0xE8 has the top bit set)
Bytes == {8, 232}

\* the payloads delivered: every length up to MaxLen, the two low octets
\* free; the octets above them stay below 128 so that the 32-bit value fits
\* the integers of the model checker
Payloads == {v \in UNION {[1..n -> Bytes] : n \in 0..MaxLen} :
                \A i \in 3..Len(v) : v[i] < 128}

\* a characteristic of the discovered database: <<service uuid, type uuid>>;
\* the pair also stands for its value handle.  0x180F is the battery
\* service, 0x2A19 the battery level characteristic.
EssT == <<UUID_ESS_SERVICE, UUID_TEMPERATURE>>
EssP == <<UUID_ESS_SERVICE, UUID_PRESSURE>>
EssH == <<UUID_ESS_SERVICE, UUID_HUMIDITY>>
EssX == <<UUID_ESS_SERVICE, 10777>>
BatT == <<6159, UUID_TEMPERATURE>>
BatX == <<6159, 10777>>

\* the attribute databases discovery may produce
PeripheralDBs == {{}, {BatT, BatX}, {EssX}, {EssT, BatX},
                  {EssT, EssP, EssH}, {EssP, EssH, EssX, BatT}}

Kinds == {"temperature", "pressure", "humidity"}

\* the steps of client_create that can fail ("none": all succeed)
CreateSteps == {"none", "new0", "bt_att_new", "bt_att_set_close_on_unref",
                "bt_att_register_disconnect", "gatt_db_new",
                "bt_gatt_client_new"}

\* the calls client_create makes, in the order it makes them
client_create_order ==
    <<"new0", "bt_att_new", "bt_att_set_close_on_unref",
      "bt_att_register_disconnect", "gatt_db_new", "bt_gatt_client_new",
      "gatt_db_register", "bt_gatt_client_ready_register",
      "bt_gatt_client_set_service_changed">>

----------------------------------------------------------------------------
(* The sensor state store *)

InitState == [connected |-> FALSE,
              has_temp |-> FALSE, has_press |-> FALSE, has_humid |-> FALSE,
              temperature |-> 0, pressure |-> 0, humidity |-> 0]

HasField(k) == CASE k = "temperature" -> "has_temp"
                 [] k = "pressure" -> "has_press"
                 [] k = "humidity" -> "has_humid"

Has(st, k) == st[HasField(k)]

\* ble_get_temperature / ble_get_pressure / ble_get_humidity, between lock
\* and unlock: the value returned and the caller's *out (out0 on entry)
ble_get_always_ok(st, k, out0) == [ok |-> TRUE, out |-> st[k]]

\* a getter that copies the stored number out whatever the flag says
ble_get_always_writes(st, k, out0) == [ok |-> Has(st, k), out |-> st[k]]

ble_get(st, k, out0) ==
    LET ok == Has(st, k)
    IN  [ok |-> ok, out |-> IF ok THEN st[k] ELSE out0]

\* a getter that clears what it read
ble_read_clears_store(st) == InitState

\* what a getter or ble_is_connected leaves in the store: they only read it
ble_read_store(st) == st

\* what the caller's output variable holds before a getter call
OutInit == {0, -1}

\* a field of the page send_response renders from one getter's result
send_response_field(ok, v) == IF ok THEN <<"number", v>> ELSE <<"N/A">>

\* ble_is_connected, between lock and unlock
ble_is_connected(st) == st.connected

----------------------------------------------------------------------------
(* The unit decoder, as notify_cb computes it *)

\* le16toh(*(uint16_t*)value): the first two octets, little-endian
le16toh(value) == value[1] + 256 * value[2]

\* le32toh(*(uint32_t*)value): the first four octets, little-endian
le32toh(value) == value[1] + 256 * value[2] + 65536 * value[3]
                  + 16777216 * value[4]

\* conversion of a 16-bit pattern to int16_t
ToInt16(u) == IF u >= 32768 THEN u - 65536 ELSE u

\* the if/else chain of notify_cb: kind, whether the payload was accepted,
\* and the raw integer it prints (in hundredths)
Decode(uuid, value) ==
    LET length == Len(value)
    IN  IF uuid = UUID_TEMPERATURE
        THEN IF length < 2 THEN [kind |-> "temperature", ok |-> FALSE, raw |-> 0]
             ELSE [kind |-> "temperature", ok |-> TRUE,
                   raw |-> ToInt16(le16toh(value))]
        ELSE IF uuid = UUID_PRESSURE
        THEN IF length < 4 THEN [kind |-> "pressure", ok |-> FALSE, raw |-> 0]
             ELSE [kind |-> "pressure", ok |-> TRUE, raw |-> le32toh(value)]
        ELSE IF uuid = UUID_HUMIDITY
        THEN IF length < 2 THEN [kind |-> "humidity", ok |-> FALSE, raw |-> 0]
             ELSE [kind |-> "humidity", ok |-> TRUE, raw |-> le16toh(value)]
        ELSE [kind |-> NoKind, ok |-> FALSE, raw |-> 0]

\* g_state after notify_cb has handled a reading d: notify_cb only prints
notify_cb_writes_store(st, d) ==
    IF d.ok
    THEN [st EXCEPT ![HasField(d.kind)] = TRUE, ![d.kind] = d.raw]
    ELSE st

\* the same, the observed flag set before the length is looked at
notify_cb_flags_unchecked(st, d) ==
    IF d.kind \in Kinds THEN [st EXCEPT ![HasField(d.kind)] = TRUE] ELSE st

notify_cb_store(st, d) == st

----------------------------------------------------------------------------
(* The characteristic resolver *)

\* a resolver that matches the characteristic type in every service
Resolve_any_service(db) ==
    {h \in db : \/ h[2] = UUID_TEMPERATURE
                \/ h[2] = UUID_PRESSURE
                \/ h[2] = UUID_HUMIDITY}

\* service_cb + ess_char_cb over the discovered database: the value handles
\* bt_gatt_client_register_notify is called for
Resolve(db) ==
    {h \in db : /\ h[1] = UUID_ESS_SERVICE
                /\ \/ h[2] = UUID_TEMPERATURE
                   \/ h[2] = UUID_PRESSURE
                   \/ h[2] = UUID_HUMIDITY}

----------------------------------------------------------------------------
(* Client lifecycle *)

\* client_create(fd, mtu) when step failAt fails: the pointer returned (NULL
\* on failure), the object it points to, and whether bt_att_unref closed the
\* descriptor on the way out
client_create(fd, failAt) ==
    IF failAt = "none"
    THEN [cli |-> Ptr(fd),
          obj |-> [self |-> Ptr(fd), fd |-> fd, disc_user_data |-> NULL,
                   ready |-> "pending", db |-> {}, requested |-> {},
                   subs |-> {}, decoded |-> {}],
          closed |-> FALSE]
    ELSE [cli |-> NULL, obj |-> NULL,
          closed |-> failAt \in {"bt_att_register_disconnect", "gatt_db_new",
                                 "bt_gatt_client_new"}]

\* the descriptor table after l2cap_le_att_connect returned a new socket
NewSock(ss) == Append(ss, [open |-> TRUE, closes |-> 0, up |-> TRUE])

\* close(fd), from the program or from bt_att_unref with close_on_unref set
Close(ss, fd) == [ss EXCEPT ![fd].open = FALSE, ![fd].closes = @ + 1,
                            ![fd].up = FALSE]

\* the transport of client c is still connected
Up(c) == socks[c.fd].up

\* the session state of section 4.6, read off the program's state
SessionState ==
    IF \E c \in clients : Up(c) /\ c.ready = "ok" THEN "Ready"
    ELSE IF \E c \in clients : Up(c) THEN "Discovering"
    ELSE "Disconnected"

\* an event loop that goes on dispatching after mainloop_quit
mainloop_ignores_quit(q) == TRUE

\* mainloop_run: the loop dispatches callbacks until mainloop_quit was called
mainloop_dispatching(q) == ~q

Running == started /\ mainloop_dispatching(quit) /\ ~fault

\* a record of the callback the reactor ran last; len is the length of the
\* payload notify_cb was given (0 for the other callbacks)
Event(ev, fd, ok, kind, raw, len) ==
    [ev |-> ev, fd |-> fd, ok |-> ok, kind |-> kind, raw |-> raw, len |-> len]

\* mainloop_add_timeout(msec, reconnect_cb, user_data, NULL)
mainloop_add_timeout(ts, msec, user_data) ==
    Append(ts, [delay |-> msec, cb |-> "reconnect_cb", user_data |-> user_data])

\* the timer list without its i-th entry (a timeout fires once)
Fired(ts, i) == [j \in 1..(Len(ts) - 1) |-> IF j < i THEN ts[j] ELSE ts[j + 1]]

----------------------------------------------------------------------------
(* The reactor thread *)

Init ==
    /\ g_state = InitState
    /\ lock = "free"
    /\ clients = {}
    /\ timers = <<>>
    /\ socks = <<>>
    /\ started = FALSE
    /\ quit = FALSE
    /\ fault = FALSE
    /\ cons = [pc |-> "idle", fn |-> "none", ok |-> FALSE, out |-> 0,
               out0 |-> 0, seen |-> InitState, again |-> FALSE]
    /\ last = Event("none", 0, FALSE, NoKind, 0, 0)
    /\ nattempt = 0

\* ble_client_start, connect failure: the timers afterwards
start_connect_failed(ts) == mainloop_add_timeout(ts, 2000, NULL)

\* ble_client_start, client_create failure: the timers afterwards
start_create_failed(ts) == mainloop_add_timeout(ts, 2000, NULL)

\* ble_client_start, success: the store afterwards
start_set_connected(st) == [st EXCEPT !.connected = TRUE]

ble_client_start ==
    /\ ~started /\ ~fault
    /\ started' = TRUE
    /\ nattempt' = 1 - nattempt
    /\ \E connected \in BOOLEAN :
        IF ~connected
        THEN /\ timers' = start_connect_failed(timers)
             /\ last' = Event("ble_client_start", -1, FALSE, NoKind, 0, 0)
             /\ UNCHANGED <<g_state, lock, clients, socks>>
        ELSE \E failAt \in CreateSteps :
             LET ss == NewSock(socks)
                 fd == Len(ss)
                 r  == client_create(fd, failAt)
                 s1 == IF r.closed THEN Close(ss, fd) ELSE ss
             IN  IF r.cli = NULL
                 THEN /\ socks' = Close(s1, fd)
                      /\ timers' = start_create_failed(timers)
                      /\ last' = Event("ble_client_start", fd, FALSE, NoKind, 0, 0)
                      /\ UNCHANGED <<g_state, lock, clients>>
                 ELSE /\ lock = "free"
                      /\ g_state' = start_set_connected(g_state)
                      /\ clients' = clients \cup {r.obj}
                      /\ socks' = s1
                      /\ last' = Event("ble_client_start", fd, TRUE, NoKind, 0, 0)
                      /\ UNCHANGED <<lock, timers>>
    /\ UNCHANGED <<quit, fault, cons>>

\* reconnect_cb, connect failure: the timers afterwards
reconnect_no_retry(ts, cli) == ts

reconnect_retry(ts, cli) == mainloop_add_timeout(ts, 2000, cli)

\* a reconnect_cb that falls through to the retry after client_create
reconnect_created_rearms(ts, r) == mainloop_add_timeout(ts, 2000, NULL)

\* reconnect_cb, after client_create returned r: the timers afterwards
\* (the return value is not looked at)
reconnect_created(ts, r) == ts

reconnect_cb ==
    /\ Running
    /\ \E i \in 1..Len(timers) :
        LET cli == timers[i].user_data
            ts  == Fired(timers, i)
        IN  \E connected \in BOOLEAN :
            IF ~connected
            THEN /\ timers' = reconnect_retry(ts, cli)
                 /\ last' = Event("reconnect_cb", -1, FALSE, NoKind, 0, 0)
                 /\ UNCHANGED <<clients, socks>>
            ELSE \E failAt \in CreateSteps :
                 LET ss == NewSock(socks)
                     fd == Len(ss)
                     r  == client_create(fd, failAt)
                 IN  /\ socks' = IF r.closed THEN Close(ss, fd) ELSE ss
                     /\ clients' = IF r.cli = NULL THEN clients
                                   ELSE clients \cup {r.obj}
                     /\ timers' = reconnect_created(ts, r)
                     /\ last' = Event("reconnect_cb", fd, r.cli # NULL, NoKind, 0, 0)
    /\ nattempt' = 1 - nattempt
    /\ UNCHANGED <<g_state, lock, started, quit, fault, cons>>

\* ready_cb(success, att_ecode, cli): db is the database discovery filled in,
\* regfail the handles whose registration the peer then refuses
ready_cb(c, success, db, regfail) ==
    /\ Running
    /\ c \in clients /\ Up(c) /\ c.ready = "pending"
    /\ regfail \subseteq Resolve(db)
    /\ IF ~success
       THEN /\ db = {} /\ regfail = {}
            /\ clients' = (clients \ {c}) \cup {[c EXCEPT !.ready = "failed"]}
       ELSE clients' = (clients \ {c}) \cup
                {[c EXCEPT !.ready = "ok", !.db = db,
                           !.requested = Resolve(db),
                           !.subs = Resolve(db) \ regfail]}
    /\ last' = Event("ready_cb", c.fd, success, NoKind, 0, 0)
    /\ UNCHANGED <<g_state, lock, timers, socks, started, quit, fault, cons,
                   nattempt>>

\* notify_cb(value_handle, value, length, cli) for a registered handle h
notify_cb(c, h, value) ==
    /\ Running
    /\ c \in clients /\ Up(c) /\ h \in c.subs
    /\ IF h \notin c.db
       THEN /\ last' = Event("notify_cb", c.fd, FALSE, NoKind, 0, Len(value))
            /\ UNCHANGED <<g_state, clients>>
       ELSE LET d == Decode(h[2], value)
            IN  /\ g_state' = notify_cb_store(g_state, d)
                /\ clients' = (clients \ {c}) \cup
                       {[c EXCEPT !.decoded =
                            IF d.ok THEN @ \cup {d.kind} ELSE @]}
                /\ last' = Event("notify_cb", c.fd, d.ok, d.kind, d.raw, Len(value))
    /\ UNCHANGED <<lock, timers, socks, started, quit, fault, cons, nattempt>>

\* client_destroy(cli): cli->gatt is read first.  For cli = NULL that is a read
\* of address 24 of an unmapped page: the process is killed (SIGSEGV) and
\* every thread stops, nothing having been released.
client_destroy(cs, ss, cli) ==
    IF cli = NULL
    THEN [fault |-> TRUE, clients |-> cs, socks |-> ss]
    ELSE LET obj == CHOOSE c \in cs : c.self = cli
         IN  [fault |-> FALSE, clients |-> cs \ {obj},
              socks |-> Close(ss, obj.fd)]

\* att_disconnect_cb(err, user_data), run when the transport of c went down
att_disconnect_cb(c, err) ==
    /\ Running
    /\ c \in clients /\ Up(c)
    /\ LET cli == c.disc_user_data
           down == [socks EXCEPT ![c.fd].up = FALSE]
           r == client_destroy(clients, down, cli)
       IN  /\ fault' = r.fault
           /\ clients' = r.clients
           /\ socks' = r.socks
           /\ timers' = IF r.fault THEN timers
                        ELSE mainloop_add_timeout(timers, 1000, NULL)
           /\ last' = Event("att_disconnect_cb", c.fd, ~r.fault, NoKind, err, 0)
    /\ UNCHANGED <<g_state, lock, started, quit, cons, nattempt>>

\* ble_client_stop: mainloop_quit
ble_client_stop ==
    /\ Running
    /\ quit' = TRUE
    /\ UNCHANGED <<g_state, lock, clients, timers, socks, started, fault, cons,
                   last, nattempt>>

----------------------------------------------------------------------------
(* The consumer thread *)

\* a getter up to its read of the store, the mutex taken
ble_get_value(k, out0) ==
    /\ ~fault /\ cons.pc = "idle" /\ lock = "free"
    /\ lock' = "consumer"
    /\ LET r == ble_get(g_state, k, out0)
       IN  cons' = [pc |-> "locked", fn |-> k, ok |-> r.ok, out |-> r.out,
                    out0 |-> out0, seen |-> g_state,
                    again |-> cons.fn = k /\ cons.seen = g_state]
    /\ g_state' = ble_read_store(g_state)
    /\ UNCHANGED <<clients, timers, socks, started, quit, fault, last,
                   nattempt>>

\* ble_is_connected up to its read of the store, the mutex taken
ble_is_connected_call ==
    /\ ~fault /\ cons.pc = "idle" /\ lock = "free"
    /\ lock' = "consumer"
    /\ cons' = [pc |-> "locked", fn |-> "is_connected",
                ok |-> ble_is_connected(g_state), out |-> 0,
                out0 |-> 0, seen |-> g_state,
                again |-> cons.fn = "is_connected" /\ cons.seen = g_state]
    /\ g_state' = ble_read_store(g_state)
    /\ UNCHANGED <<clients, timers, socks, started, quit, fault, last,
                   nattempt>>

\* pthread_mutex_unlock and return: the caller keeps the result, the call's
\* frame (its argument, whether it was a repeat) is gone
api_return ==
    /\ ~fault /\ cons.pc = "locked"
    /\ lock' = "free"
    /\ cons' = [cons EXCEPT !.pc = "idle", !.out0 = 0, !.again = FALSE]
    /\ UNCHANGED <<g_state, clients, timers, socks, started, quit, fault, last,
                   nattempt>>

----------------------------------------------------------------------------

\* at most one registration is refused per discovery
ReadyStep ==
    \E c \in clients, success \in BOOLEAN, db \in PeripheralDBs :
        \E regfail \in {{}} \cup {{h} : h \in Resolve(db)} :
            ready_cb(c, success, db, regfail)

NotifyStep ==
    \E c \in clients : \E h \in c.subs, value \in Payloads : notify_cb(c, h, value)

DisconnectStep ==
    \E c \in clients, err \in {104, 110} : att_disconnect_cb(c, err)

\* the caller's variable holds 0 (send_response) or a number of its own
GetStep == \E k \in Kinds, out0 \in OutInit : ble_get_value(k, out0)

Next ==
    \/ ble_client_start
    \/ reconnect_cb
    \/ ReadyStep
    \/ NotifyStep
    \/ DisconnectStep
    \/ ble_client_stop
    \/ GetStep
    \/ ble_is_connected_call
    \/ api_return

Spec == Init /\ [][Next]_vars

\* the reactor runs every callback that is due: the first attempt, a timer
\* that expired, a completed discovery
FairSpec ==
    /\ Spec
    /\ WF_vars(ble_client_start)
    /\ WF_vars(reconnect_cb)
    /\ WF_vars(ReadyStep)

TypeOK ==
    /\ g_state \in [connected : BOOLEAN, has_temp : BOOLEAN,
                    has_press : BOOLEAN, has_humid : BOOLEAN,
                    temperature : Int, pressure : Int, humidity : Int]
    /\ lock \in {"free", "consumer"}
    /\ \A c \in clients : /\ c.fd \in 1..Len(socks)
                          /\ c.ready \in {"pending", "ok", "failed"}
                          /\ c.subs \subseteq c.requested
                          /\ c.requested \subseteq c.db
                          /\ c.decoded \subseteq Kinds
    /\ \A i \in 1..Len(timers) : timers[i].delay \in {1000, 2000}
    /\ started \in BOOLEAN /\ quit \in BOOLEAN /\ fault \in BOOLEAN
    /\ cons.pc \in {"idle", "locked"}
    /\ nattempt \in {0, 1}

----------------------------------------------------------------------------
(* Claims *)

\* what the three getters would return in the current state
Observed(k) == ble_get(g_state, k, 0).ok

\* C1: whenever ble_is_connected() returns false, ble_get_temperature(),
\* ble_get_pressure() and ble_get_humidity() all return false.
C1_NotConnectedImpliesNotObserved ==
    ~ble_is_connected(g_state) => \A k \in Kinds : ~Observed(k)

\* a connection set up by reconnect_cb has delivered a reading while the
\* connectivity flag reads false
C1_Witness ==
    /\ ~ble_is_connected(g_state)
    /\ last.ev = "notify_cb" /\ last.ok
    /\ \A k \in Kinds : ~Observed(k)

\* C2: once the disconnect handler has run, ble_is_connected() returns false
\* (until a later connection is set up).
C2_DisconnectClearsConnected ==
    last.ev = "att_disconnect_cb" => ~ble_is_connected(g_state)

\* C3: a getter returns true for a kind only if that kind was decoded on the
\* connection that is current; and once the disconnect handler has run all
\* three getters return false, whatever was decoded before.
C3_ObservedOnlyIfDecoded ==
    /\ \A k \in Kinds : Observed(k) => \E c \in clients : k \in c.decoded
    /\ (cons.fn \in Kinds /\ cons.ok) => \E c \in clients : cons.fn \in c.decoded
    /\ last.ev = "att_disconnect_cb" => \A k \in Kinds : ~Observed(k)

\* all three kinds were decoded, then the transport went down
C3_Witness ==
    /\ last.ev = "att_disconnect_cb"
    /\ \E c \in clients : c.decoded = Kinds
    /\ \A k \in Kinds : ~Observed(k)

\* C4: after notify_cb accepted a payload for a kind, the getter of that kind
\* returns true with exactly the decoded value.
C4_NotifyWritesStore ==
    (last.ev = "notify_cb" /\ last.ok) =>
        ble_get(g_state, last.kind, 0) = [ok |-> TRUE, out |-> last.raw]

\* C5: ble_is_connected() returns true only while the session is Ready.
C5_ConnectedOnlyWhenReady ==
    ble_is_connected(g_state) => SessionState = "Ready"

\* C6: whenever the session is Ready, ble_is_connected() returns true.
C6_ReadyImpliesConnected ==
    SessionState = "Ready" => ble_is_connected(g_state)

\* C7: the disconnect handler frees the client of the connection that went
\* down, leaves exactly one reconnect timer pending, and does not fault.
C7_DisconnectTearsDown ==
    last.ev = "att_disconnect_cb" =>
        /\ ~fault
        /\ \A c \in clients : c.fd # last.fd
        /\ Len(timers) = 1

\* C8: a step in which l2cap_le_att_connect fails (in ble_client_start or in
\* reconnect_cb) leaves the session Disconnected, creates no client and no
\* descriptor, does not touch the store, and leaves exactly one reconnect_cb
\* timer pending, set to 2000 ms.
C8_ConnectFailureRetries ==
    [][(nattempt' # nattempt /\ last'.fd < 0) =>
            /\ SessionState' = "Disconnected"
            /\ clients' = clients
            /\ socks' = socks
            /\ g_state' = g_state
            /\ Len(timers') = 1
            /\ timers'[1].delay = 2000
            /\ timers'[1].cb = "reconnect_cb"]_vars

\* a reconnect attempt has just failed at the transport
C8_Witness ==
    /\ last.ev = "reconnect_cb" /\ last.fd < 0
    /\ Len(timers) = 1 /\ timers[1].delay = 2000
    /\ SessionState = "Disconnected"

\* C9: after a connect attempt whose client_create failed, a reconnect timer
\* is pending.
C9_CreateFailureRetries ==
    (last.ev \in {"ble_client_start", "reconnect_cb"} /\ last.fd > 0 /\ ~last.ok)
        => Len(timers) >= 1

\* C10: whenever the session is Disconnected after the start, another connect
\* attempt eventually happens, unless the loop is stopped.
C10_EventuallyReconnects ==
    \A b \in {0, 1} :
        (started /\ SessionState = "Disconnected" /\ nattempt = b)
            ~> (nattempt # b \/ quit)

\* the payload width section 4.1 requires for a kind
Width(k) == CASE k = "temperature" -> 2
              [] k = "pressure" -> 4
              [] k = "humidity" -> 2

\* C11: a notification whose payload is shorter than the width of its kind
\* is rejected: the store, the clients and their connection, the timers and
\* the descriptors are all as before, and nothing faults.
C11_ShortPayloadRejected ==
    [][(/\ last'.ev = "notify_cb"
        /\ last'.kind \in Kinds
        /\ last'.len < Width(last'.kind)) =>
            /\ ~last'.ok
            /\ g_state' = g_state
            /\ clients' = clients
            /\ timers' = timers
            /\ socks' = socks
            /\ fault' = fault
            /\ SessionState' = "Ready"]_vars

\* a three-octet pressure payload has just been dropped
C11_Witness ==
    /\ last.ev = "notify_cb" /\ last.kind = "pressure" /\ last.len = 3
    /\ ~last.ok
    /\ SessionState = "Ready"

\* a step after which the last callback run is a failed ready_cb changes
\* nothing but the client's record of the discovery
FrameOnDiscoveryFailure ==
    (last'.ev = "ready_cb" /\ ~last'.ok) =>
        /\ g_state' = g_state
        /\ timers' = timers
        /\ socks' = socks
        /\ fault' = fault
        /\ {c.self : c \in clients'} = {c.self : c \in clients}
        /\ \A c \in clients' :
             c.fd = last'.fd => Up(c)' /\ c.requested = {} /\ c.subs = {}

\* the disconnect handler, run for a client whose discovery had failed,
\* frees that client and leaves one reconnect timer pending
TeardownAfterDiscoveryFailure ==
    (/\ last'.ev = "att_disconnect_cb"
     /\ \E c \in clients : c.fd = last'.fd /\ c.ready = "failed") =>
        /\ ~fault'
        /\ \A c \in clients' : c.fd # last'.fd
        /\ Len(timers') = 1

\* C12: a failed discovery only logs (store, subscriptions, client,
\* connection and timers are untouched), and a later transport disconnect
\* on that connection is still followed by teardown and a scheduled
\* reconnect.
C12_DiscoveryFailureOnlyLogs ==
    [][FrameOnDiscoveryFailure /\ TeardownAfterDiscoveryFailure]_vars

\* the first half of C12 alone
C12_FrameOnly == [][FrameOnDiscoveryFailure]_vars

\* C13: on a connection whose discovery succeeded without an environmental
\* sensing service, no subscription is registered, no kind is decoded or
\* observed, and ble_is_connected() returns true.
C13_NoEssServiceIsInert ==
    \A c \in clients :
        (/\ Up(c) /\ c.ready = "ok"
         /\ \A h \in c.db : h[1] # UUID_ESS_SERVICE) =>
            /\ c.requested = {} /\ c.subs = {}
            /\ c.decoded = {}
            /\ \A k \in Kinds : ~Observed(k)
            /\ ble_is_connected(g_state)

\* C14: the store is written only in a critical section entered with the
\* mutex free; a consumer call reads it in the step that takes the mutex;
\* the mutex is held exactly while the consumer is between its read and
\* its return, and the only thing the holder then does is release it.
C14_StoreAccessUnderMutex ==
    [][/\ g_state' # g_state => lock = "free" /\ lock' = "free"
       /\ (cons' # cons /\ cons'.pc = "locked") =>
              lock = "free" /\ lock' = "consumer"
       /\ (lock = "consumer") <=> (cons.pc = "locked")
       /\ (lock' = "consumer") <=> (cons'.pc = "locked")
       /\ (lock = "consumer" /\ cons' # cons) =>
              /\ lock' = "free" /\ cons'.pc = "idle"
              /\ UNCHANGED <<g_state, clients, timers, socks, last>>]_vars

\* the consumer is inside ble_is_connected, holding the mutex, and has read
\* the flag the reactor wrote
C14_Witness ==
    /\ lock = "consumer" /\ cons.pc = "locked"
    /\ cons.fn = "is_connected" /\ cons.ok
    /\ g_state.connected

\* C15: a getter called again with the store as the previous call of the
\* same getter saw it returns the same observed flag and, when observed,
\* the same value; and no step of a getter or of ble_is_connected changes
\* the store.
C15_GettersIdempotentAndPure ==
    [][/\ (/\ cons.pc = "idle" /\ cons'.pc = "locked"
           /\ cons'.fn = cons.fn /\ cons.seen = g_state) =>
              /\ cons'.ok = cons.ok
              /\ cons'.ok => cons'.out = cons.out
       /\ cons' # cons => g_state' = g_state]_vars

\* ble_get_temperature is inside its second call in a row, and the store is
\* as the first call saw it, after the reactor wrote the flag
C15_Witness ==
    /\ cons.pc = "locked" /\ cons.fn = "temperature"
    /\ cons.again /\ cons.seen = g_state /\ g_state.connected

\* C17: a getter that returns false leaves the caller's variable as it was
\* on entry, and send_response renders that reading as "N/A".
C17_FalseLeavesOutputUntouched ==
    (cons.pc = "locked" /\ cons.fn \in Kinds /\ ~cons.ok) =>
        /\ cons.out = cons.out0
        /\ send_response_field(cons.ok, cons.out) = <<"N/A">>

\* ble_get_pressure has returned false to a caller whose variable held -1
\* while the store holds another number
C17_Witness ==
    /\ cons.pc = "locked" /\ cons.fn = "pressure" /\ ~cons.ok
    /\ cons.out0 = -1 /\ cons.out = -1
    /\ g_state.pressure # cons.out

\* C16: once a stop was requested the reactor does nothing more: no
\* reconnect attempt, no registration, no notification handling, no store
\* write, no teardown; a reconnect timer that was pending stays pending.
C16_StopHaltsReactor ==
    [][quit => /\ quit'
               /\ UNCHANGED <<g_state, clients, timers, socks, started, fault,
                              last, nattempt>>]_vars

\* the reactor was stopped with a reconnect timer pending, and the consumer
\* has called into the store since
C16_Witness ==
    /\ quit /\ Len(timers) = 1
    /\ cons.pc = "locked" /\ cons.again

\* position of a call in client_create
StepIndex(step) ==
    CHOOSE i \in 1..Len(client_create_order) : client_create_order[i] = step

\* client_create registers the disconnect callback before it creates the
\* database and the GATT client and before the ready / service-changed
\* registrations
DisconnectRegisteredFirst ==
    \A step \in {"gatt_db_new", "bt_gatt_client_new", "gatt_db_register",
                 "bt_gatt_client_ready_register",
                 "bt_gatt_client_set_service_changed"} :
        StepIndex("bt_att_register_disconnect") < StepIndex(step)

\* a disconnect of a connection whose discovery has not completed runs the
\* handler to its end: the client is torn down and a reconnect is scheduled
DisconnectDuringDiscoveryHandled ==
    (/\ last'.ev = "att_disconnect_cb"
     /\ \E c \in clients : c.fd = last'.fd /\ c.ready = "pending") =>
        /\ ~fault'
        /\ \A c \in clients' : c.fd # last'.fd
        /\ Len(timers') = 1

\* C18: the disconnect callback is registered before the rest of the setup,
\* so a disconnect at any later point of setup or during discovery invokes
\* the handler and leads to teardown and a scheduled reconnect.
C18_EarlyDisconnectRegistration ==
    [][DisconnectRegisteredFirst /\ DisconnectDuringDiscoveryHandled]_vars

\* C19: after a successful discovery a registration was requested for a
\* characteristic of the database if and only if its service is 0x181A
\* (6170) and its type is 0x2A6E (10862), 0x2A6D (10861) or 0x2A6F (10863);
\* the others are skipped and discovery completes without a fault.
C19_ResolverSelectsEssSensors ==
    /\ \A c \in clients :
           c.ready = "ok" =>
               /\ c.requested \subseteq c.db
               /\ \A h \in c.db :
                      h \in c.requested <=>
                          (h[1] = 6170 /\ h[2] \in {10862, 10861, 10863})
    /\ (last.ev = "ready_cb" /\ last.ok) => ~fault

\* discovery found pressure and humidity next to an unknown characteristic
\* of the sensing service and a temperature characteristic of another one
C19_Witness ==
    /\ last.ev = "ready_cb" /\ last.ok
    /\ \E c \in clients :
           /\ c.ready = "ok" /\ c.fd = last.fd
           /\ c.db = {EssP, EssH, EssX, BatT}
           /\ c.requested = {EssP, EssH}

\* C20: every reconnect the supervisor schedules is due after 2000 ms, and
\* each of the three occasions schedules one: a failed first connect, a
\* failed reconnect, a disconnect.
C20_FixedReconnectDelay ==
    [][/\ \A i \in 1..Len(timers') : timers'[i].delay = 2000
       /\ (\/ /\ last'.ev \in {"ble_client_start", "reconnect_cb"}
              /\ last'.fd < 0 /\ nattempt' # nattempt
           \/ /\ last'.ev = "att_disconnect_cb"
              /\ last.ev # "att_disconnect_cb") =>
              \E i \in 1..Len(timers') : timers'[i].delay = 2000]_vars

\* C21: at most one client exists and at most one reconnect timer is
\* pending, and a timer is pending only while there is no client.
C21_OneClientOneTimer ==
    /\ Cardinality(clients) <= 1
    /\ Len(timers) <= 1
    /\ Len(timers) >= 1 => clients = {}

\* a client was created by reconnect_cb after an earlier attempt had
\* connected and failed in client_create; no timer is pending
C21_Witness ==
    /\ last.ev = "reconnect_cb" /\ last.ok
    /\ Cardinality(clients) = 1 /\ Len(socks) = 2
    /\ timers = <<>>

\* C22: every descriptor l2cap_le_att_connect returned is either open, never
\* closed and owned by exactly one client, or closed exactly once and owned
\* by none.
C22_DescriptorOwnedOrClosedOnce ==
    \A fd \in 1..Len(socks) :
        LET owners == {c \in clients : c.fd = fd}
        IN  \/ /\ socks[fd].open /\ socks[fd].closes = 0
               /\ Cardinality(owners) = 1
            \/ /\ ~socks[fd].open /\ socks[fd].closes = 1
               /\ owners = {}

\* the part of C22 about descriptors closed twice
C22_NeverClosedTwice == \A fd \in 1..Len(socks) : socks[fd].closes <= 1

\* the part of C22 about descriptors left open without an owner
C22_NeverLeaked ==
    \A fd \in 1..Len(socks) :
        socks[fd].open => \E c \in clients : c.fd = fd

====
